---- MODULE Spec2Model ----
(***************************************************************************)
(* Model of src/extract_data_from_pdf.py: the line classifiers, the value  *)
(* parsers, the header / detail / FX parsers, process_block and the        *)
(* segmentation and assembly loops of extract_transactions.                *)
(*                                                                         *)
(* A Python str is a sequence of characters.  An ASCII character is the    *)
(* one-character string holding it; a non-ASCII character is the string    *)
(* naming its code point ("U+00ED").  Python's None is the value None.     *)
(***************************************************************************)
EXTENDS Integers, Sequences, FiniteSets, TLC

VARIABLES lines, pos, current, blocks, bi, transactions, pc, arg, ret

vars == <<lines, pos, current, blocks, bi, transactions, pc, arg, ret>>

(***************************************************************************)
(* Characters and strings                                                  *)
(***************************************************************************)

\* The characters of a TLA+ string literal, as a Python str.
S(str) == [i \in 1..Len(str) |-> SubSeq(str, i, i)]

None == <<"None">>

UpperSeq == S("ABCDEFGHIJKLMNOPQRSTUVWXYZ")
LowerSeq == S("abcdefghijklmnopqrstuvwxyz")
Digit == {"0", "1", "2", "3", "4", "5", "6", "7", "8", "9"}
Upper == {UpperSeq[i] : i \in 1..26}
Lower == {LowerSeq[i] : i \in 1..26}

\* Non-ASCII characters of the model: the letters a-acute, i-acute, o-acute,
\* e-caron and c-caron in both cases, the spacing diaeresis U+00A8 (a symbol) and
\* the no-break space U+00A0.
NonAsciiLower == <<"U+00E1", "U+00ED", "U+00F3", "U+011B", "U+010D">>
NonAsciiUpper == <<"U+00C1", "U+00CD", "U+00D3", "U+011A", "U+010C">>
NonAsciiBase == <<"a", "i", "o", "e", "c">>
NonAsciiMark == <<"U+0301", "U+0301", "U+0301", "U+030C", "U+030C">>
NonAsciiLetter == {NonAsciiLower[i] : i \in 1..5} \cup {NonAsciiUpper[i] : i \in 1..5}
Space == {" ", "U+00A0"}
Word == Digit \cup Upper \cup Lower \cup {"_"} \cup NonAsciiLetter

IsAscii(c) == Len(c) = 1

IndexIn(seq, c) == CHOOSE i \in 1..Len(seq) : seq[i] = c
Has(seq, c) == \E i \in 1..Len(seq) : seq[i] = c

UpperChar(c) ==
    CASE Has(LowerSeq, c) -> UpperSeq[IndexIn(LowerSeq, c)]
      [] Has(NonAsciiLower, c) -> NonAsciiUpper[IndexIn(NonAsciiLower, c)]
      [] OTHER -> c

LowerChar(c) ==
    CASE Has(UpperSeq, c) -> LowerSeq[IndexIn(UpperSeq, c)]
      [] Has(NonAsciiUpper, c) -> NonAsciiLower[IndexIn(NonAsciiUpper, c)]
      [] OTHER -> c

\* unicodedata.normalize("NFKD", c) for one character.
NFKD(c) ==
    CASE Has(NonAsciiLower, c) ->
            <<NonAsciiBase[IndexIn(NonAsciiLower, c)], NonAsciiMark[IndexIn(NonAsciiLower, c)]>>
      [] Has(NonAsciiUpper, c) ->
            <<UpperChar(NonAsciiBase[IndexIn(NonAsciiUpper, c)]),
              NonAsciiMark[IndexIn(NonAsciiUpper, c)]>>
      [] c = "U+00A8" -> <<" ", "U+0308">>
      [] c = "U+00A0" -> <<" ">>
      [] OTHER -> <<c>>

StrLower(s) == [i \in 1..Len(s) |-> LowerChar(s[i])]
StrUpper(s) == [i \in 1..Len(s) |-> UpperChar(s[i])]

RECURSIVE Flatten(_)
Flatten(ss) ==
    IF ss = <<>> THEN <<>>
    ELSE IF Len(ss) = 1 THEN ss[1]
    ELSE LET h == Len(ss) \div 2
         IN Flatten(SubSeq(ss, 1, h)) \o Flatten(SubSeq(ss, h + 1, Len(ss)))

Slice(s, a, b) == SubSeq(s, a, b - 1)

RECURSIVE LStrip(_)
LStrip(s) == IF s # <<>> /\ Head(s) \in Space THEN LStrip(Tail(s)) ELSE s

RECURSIVE RStrip(_)
RStrip(s) ==
    IF s # <<>> /\ s[Len(s)] \in Space THEN RStrip(SubSeq(s, 1, Len(s) - 1)) ELSE s

Strip(s) == RStrip(LStrip(s))

StartsWithAt(s, p, i) ==
    /\ i + Len(p) - 1 <= Len(s)
    /\ \A k \in 1..Len(p) : s[i + k - 1] = p[k]

StartsWith(s, p) == StartsWithAt(s, p, 1)

\* str.find: the first index (1-based) at which sub occurs, 0 when it does not.
Find(s, sub) ==
    LET hits == {i \in 1..(Len(s) - Len(sub) + 1) : StartsWithAt(s, sub, i)}
    IN IF hits = {} THEN 0 ELSE CHOOSE i \in hits : \A j \in hits : i <= j

Contains(s, sub) == Find(s, sub) # 0

\* str.replace(old, new), old non-empty.
RECURSIVE Replace(_, _, _)
Replace(s, old, new) ==
    LET i == Find(s, old)
    IN IF i = 0 THEN s
       ELSE SubSeq(s, 1, i - 1) \o new \o Replace(SubSeq(s, i + Len(old), Len(s)), old, new)

\* str.split(): the maximal runs of non-whitespace characters.
RECURSIVE SplitFrom(_, _, _)
SplitFrom(s, i, cur) ==
    IF i > Len(s) THEN (IF cur = <<>> THEN <<>> ELSE <<cur>>)
    ELSE IF s[i] \in Space
         THEN (IF cur = <<>> THEN <<>> ELSE <<cur>>) \o SplitFrom(s, i + 1, <<>>)
         ELSE SplitFrom(s, i + 1, Append(cur, s[i]))

Split(s) == SplitFrom(s, 1, <<>>)

RECURSIVE Join(_, _)
Join(sep, ss) ==
    IF ss = <<>> THEN <<>>
    ELSE IF Len(ss) = 1 THEN ss[1]
    ELSE ss[1] \o sep \o Join(sep, Tail(ss))

\* line.split(":", 1)[-1]
AfterFirstColon(s) ==
    LET i == Find(s, <<":">>) IN IF i = 0 THEN s ELSE SubSeq(s, i + 1, Len(s))

(***************************************************************************)
(* Regular expressions (the re module as the source uses it)               *)
(*                                                                         *)
(* A pattern is a tree.  M(r, s, i, caps) is the list of the ways r        *)
(* matches s from index i, in the order a backtracking matcher tries       *)
(* them; each is <<end, caps>>, caps mapping a group name to the           *)
(* <<start, end>> it captured (<<0, 0>>: did not take part).               *)
(***************************************************************************)

GroupNames == {"g1", "date", "amount", "currency", "rate"}
NoCaps == [g \in GroupNames |-> <<0, 0>>]

Dot == <<"any">>                                \* .
In(set) == <<"set", set>>                       \* a character class
Lit(str) ==
    IF Len(str) = 1 THEN <<"set", {str}>>
    ELSE <<"cat", [i \in 1..Len(str) |-> <<"set", {SubSeq(str, i, i)}>>]>>
\* a literal under re.IGNORECASE
LitI(str) ==
    IF Len(str) = 1 THEN <<"set", {LowerChar(str), UpperChar(str)}>>
    ELSE <<"cat", [i \in 1..Len(str) |->
                     <<"set", {LowerChar(SubSeq(str, i, i)), UpperChar(SubSeq(str, i, i))}>>]>>
Cat(rs) == <<"cat", rs>>
Alt(a, b) == <<"alt", a, b>>                    \* a|b
Inf == 0 - 1
Rep(r, lo, hi) == <<"rep", r, lo, hi, TRUE>>    \* r{lo,hi}, greedy
Lazy(r, lo, hi) == <<"rep", r, lo, hi, FALSE>>  \* r{lo,hi}?
Star(r) == Rep(r, 0, Inf)
Plus(r) == Rep(r, 1, Inf)
Opt(r) == Rep(r, 0, 1)
Times(r, n) == Rep(r, n, n)
Grp(name, r) == <<"grp", name, r>>              \* (?P<name>r), or (r) as "g1"
Bol == <<"bol">>                                \* ^
Eol == <<"eol">>                                \* $
WordB == <<"wordb">>                            \* \b
NotAfter(set) == <<"notafter", set>>            \* (?<![set])

IsWordAt(s, i) == i >= 1 /\ i <= Len(s) /\ s[i] \in Word

Hit(r, s, i) ==
    i <= Len(s) /\ (r[1] = "any" \/ (r[1] = "set" /\ s[i] \in r[2]))

\* how many characters from i on (at most hi) the one-character pattern r takes
Run(r, s, i, hi) ==
    LET top == IF hi = Inf \/ hi > Len(s) - i + 1 THEN Len(s) - i + 1 ELSE hi
    IN CHOOSE k \in 0..top :
          /\ \A m \in 0..(k - 1) : Hit(r, s, i + m)
          /\ k = top \/ ~Hit(r, s, i + k)

RECURSIVE M(_, _, _, _)
RECURSIVE MThen(_, _, _)

\* every way of ms, then r
MThen(ms, r, s) ==
    IF ms = <<>> THEN <<>>
    ELSE IF Len(ms) = 1 THEN M(r, s, ms[1][1], ms[1][2])
    ELSE LET h == Len(ms) \div 2
         IN MThen(SubSeq(ms, 1, h), r, s) \o MThen(SubSeq(ms, h + 1, Len(ms)), r, s)

\* every way of ms, with group name recorded as starting at i
MGroup(ms, name, i) ==
    [k \in 1..Len(ms) |-> <<ms[k][1], [ms[k][2] EXCEPT ![name] = <<i, ms[k][1]>>]>>]

M(r, s, i, caps) ==
    CASE r[1] \in {"any", "set"} ->
            IF Hit(r, s, i) THEN << <<i + 1, caps>> >> ELSE <<>>
      [] r[1] = "cat" ->
            IF r[2] = <<>> THEN << <<i, caps>> >>
            ELSE MThen(M(Head(r[2]), s, i, caps), <<"cat", Tail(r[2])>>, s)
      [] r[1] = "alt" -> M(r[2], s, i, caps) \o M(r[3], s, i, caps)
      [] r[1] = "rep" /\ r[2][1] \in {"any", "set"} ->
            \* a repeated character class: the longest run first (greedy) or last (lazy)
            LET lo == r[3]
                run == Run(r[2], s, i, r[4])
                n == run - lo + 1
            IN IF n <= 0 THEN <<>>
               ELSE [k \in 1..n |->
                       <<IF r[5] THEN i + run - (k - 1) ELSE i + lo + (k - 1), caps>>]
      [] r[1] = "rep" /\ r[2][1] \notin {"any", "set"} ->
            LET lo == r[3]
                hi == r[4]
                rest == <<"rep", r[2], IF lo > 0 THEN lo - 1 ELSE 0,
                          IF hi = Inf THEN Inf ELSE hi - 1, r[5]>>
                more == IF hi = 0 THEN <<>> ELSE MThen(M(r[2], s, i, caps), rest, s)
                stop == IF lo = 0 THEN << <<i, caps>> >> ELSE <<>>
            IN IF r[5] THEN more \o stop ELSE stop \o more
      [] r[1] = "grp" -> MGroup(M(r[3], s, i, caps), r[2], i)
      [] r[1] = "bol" -> IF i = 1 THEN << <<i, caps>> >> ELSE <<>>
      [] r[1] = "eol" -> IF i = Len(s) + 1 THEN << <<i, caps>> >> ELSE <<>>
      [] r[1] = "wordb" ->
            IF IsWordAt(s, i - 1) # IsWordAt(s, i) THEN << <<i, caps>> >> ELSE <<>>
      [] r[1] = "notafter" ->
            IF i = 1 \/ s[i - 1] \notin r[2] THEN << <<i, caps>> >> ELSE <<>>

NoMatch == [found |-> FALSE, start |-> 0, end |-> 0, caps |-> NoCaps]

\* the match object for the ways ms of matching from i: the first way, if any
Found(i, ms) ==
    IF ms = <<>> THEN NoMatch
    ELSE [found |-> TRUE, start |-> i, end |-> ms[1][1], caps |-> ms[1][2]]

\* pattern.match(s): the match at the start of s
Match(r, s) == Found(1, M(r, s, 1, NoCaps))

\* the match at the least of starts
FirstStart(r, s, starts) ==
    IF starts = {} THEN NoMatch
    ELSE Found(CHOOSE k \in starts : \A j \in starts : k <= j,
               M(r, s, CHOOSE k \in starts : \A j \in starts : k <= j, NoCaps))

\* pattern.search(s): the leftmost match
Search(r, s) == FirstStart(r, s, {i \in 1..(Len(s) + 1) : M(r, s, i, NoCaps) # <<>>})

\* m.group(name)
Group(m, s, name) == Slice(s, m.caps[name][1], m.caps[name][2])

\* re.sub(r, rep, s), r matching no empty string
RECURSIVE Sub(_, _, _)

\* s with the match m replaced, and the matches after it
SubFrom(r, rep, s, m) ==
    IF ~m.found THEN s
    ELSE SubSeq(s, 1, m.start - 1) \o rep \o Sub(r, rep, SubSeq(s, m.end, Len(s)))

Sub(r, rep, s) == SubFrom(r, rep, s, Search(r, s))

(***************************************************************************)
(* The patterns of the source                                              *)
(***************************************************************************)

D == In(Digit)
Sp == In(Space)
UpperClass == In(Upper)

\* ^\s*(\d{1,2}\.\s*\d{1,2}\.\s*\d{4})
DATE_RE ==
    Cat(<<Bol, Star(Sp),
          Grp("g1", Cat(<<Rep(D, 1, 2), Lit("."), Star(Sp), Rep(D, 1, 2), Lit("."),
                          Star(Sp), Times(D, 4)>>))>>)

\* \d{1,2}\.\s+\d{1,2}\.\s+\d{4}
HEADER_DATE_RE ==
    Cat(<<Rep(D, 1, 2), Lit("."), Plus(Sp), Rep(D, 1, 2), Lit("."), Plus(Sp),
          Times(D, 4)>>)

\* -?\s*(?:\d{1,3}(?:[ .]\d{3})*|\d+),\d{2}
AMOUNT_TOKEN_RE ==
    Cat(<<Opt(Lit("-")), Star(Sp),
          Alt(Cat(<<Rep(D, 1, 3), Star(Cat(<<In({" ", "."}), Times(D, 3)>>))>>),
              Plus(D)),
          Lit(","), Times(D, 2)>>)

\* (?:K\w|[A-Z]{3})
CURRENCY_TOKEN_RE == Alt(Cat(<<Lit("K"), In(Word)>>), Times(UpperClass, 3))

\* (?<!\d)(?P<amount>AMOUNT)\s+(?P<currency>CURRENCY)\s*$
HEADER_AMOUNT_RE ==
    Cat(<<NotAfter(Digit), Grp("amount", AMOUNT_TOKEN_RE), Plus(Sp),
          Grp("currency", CURRENCY_TOKEN_RE), Star(Sp), Eol>>)

\* ^\s*HEADER_DATE.*?(?<!\d)AMOUNT\s+CURRENCY\s*$
HEADER_RE ==
    Cat(<<Bol, Star(Sp), HEADER_DATE_RE, Lazy(Dot, 0, Inf), NotAfter(Digit),
          AMOUNT_TOKEN_RE, Plus(Sp), CURRENCY_TOKEN_RE, Star(Sp), Eol>>)

\* ^\d+/\d+$
PAGE_RE == Cat(<<Bol, Plus(D), Lit("/"), Plus(D), Eol>>)

\* \d[\d\s\.]*,\d{2}
FxAmount == Cat(<<D, Star(In(Digit \cup Space \cup {"."})), Lit(","), Times(D, 2)>>)

\* (?P<date>\d{1,2}\.\d{1,2}\.\d{4})\s+(?P<amount>\d[\d\s\.]*,\d{2})\s+(?P<currency>[A-Z]{3})\b
FX_DATE_AMOUNT_RE ==
    Cat(<<Grp("date", Cat(<<Rep(D, 1, 2), Lit("."), Rep(D, 1, 2), Lit("."), Times(D, 4)>>)),
          Plus(Sp), Grp("amount", FxAmount), Plus(Sp),
          Grp("currency", Times(UpperClass, 3)), WordB>>)

\* ^\s*(?P<amount>\d[\d\s\.]*,\d{2})\s+(?P<currency>[A-Z]{3})\b
FX_AMOUNT_ONLY_RE ==
    Cat(<<Bol, Star(Sp), Grp("amount", FxAmount), Plus(Sp),
          Grp("currency", Times(UpperClass, 3)), WordB>>)

\* ^\s*1\s+(?P<currency>[A-Z]{3})\s*=\s*(?P<rate>\d[\d\s]*,\d+)\s*K\w\b
FX_RATE_RE ==
    Cat(<<Bol, Star(Sp), Lit("1"), Plus(Sp), Grp("currency", Times(UpperClass, 3)),
          Star(Sp), Lit("="), Star(Sp),
          Grp("rate", Cat(<<D, Star(In(Digit \cup Space)), Lit(","), Plus(D)>>)),
          Star(Sp), Lit("K"), In(Word), WordB>>)

\* \b\d{4}\s\d{2}\*{2}\s\*{4}\s\d{4}\b
CARD_MASK_RE ==
    Cat(<<WordB, Times(D, 4), Sp, Times(D, 2), Times(Lit("*"), 2), Sp,
          Times(Lit("*"), 4), Sp, Times(D, 4), WordB>>)

\* \b\d{6}X{4,6}\d{4}\b, re.IGNORECASE
CARD_MASK_X_RE == Cat(<<WordB, Times(D, 6), Rep(LitI("X"), 4, 6), Times(D, 4), WordB>>)

\* \b\d{6}\*{4,6}\d{4}\b
CARD_MASK_STAR_RE == Cat(<<WordB, Times(D, 6), Rep(Lit("*"), 4, 6), Times(D, 4), WordB>>)

\* \b\d{1,10}-\d{1,10}/\d{4}\b
ACCOUNT_RE ==
    Cat(<<WordB, Rep(D, 1, 10), Lit("-"), Rep(D, 1, 10), Lit("/"), Times(D, 4), WordB>>)

\* \b\d{1,10}/\d{4}\b
ACCOUNT_RE2 == Cat(<<WordB, Rep(D, 1, 10), Lit("/"), Times(D, 4), WordB>>)

\* \bVISA\b and \bMASTERCARD\b, re.IGNORECASE
VisaRe == Cat(<<WordB, LitI("VISA"), WordB>>)
MastercardRe == Cat(<<WordB, LitI("MASTERCARD"), WordB>>)

(***************************************************************************)
(* Dictionaries and truth values                                           *)
(***************************************************************************)

\* Python's truth value of a str or None
Truthy(v) == v # None /\ v # <<>>

\* d.get(key)
Get(d, key) == IF key \in DOMAIN d THEN d[key] ELSE None

\* d[key] = value
Put(d, key, value) == (key :> value) @@ d

\* d.update(other)
Update(d, other) == other @@ d

\* d.pop(key, None)
Pop(d, key) == [k \in (DOMAIN d) \ {key} |-> d[k]]

(***************************************************************************)
(* Constants of the source                                                 *)
(***************************************************************************)

COLUMNS ==
    <<"Datum", "Popis_hlavicka", "Protistrana", "Protiucet", "Karta", "Castka_CZK",
      "Castka_raw", "Datum_provedeni", "Kod_transakce", "Typ_transakce", "VS", "SS",
      "KS", "Zprava", "ATM_ID", "FX_mena", "FX_kurz", "FX_kurz_mena", "Doplnek",
      "Blok_text">>

IGNORE_SUBSTRINGS ==
    {S("vypis z uctu"), S("datum vypisu"), S("informace o uctu"), S("zustatky"),
     S("pocatecni zustatek"), S("konecny zustatek"), S("komercni banka, a. s."),
     S("zapsana v obchodnim rejstriku"), S("trvaly pobyt"), S("cislo uctu"), S("iban"),
     S("hlavni mena"), S("typ uctu"), S("transakce")}

\* the connector words with "za" left out
TriggersWithoutZa ==
    {S("na"), S("pres"), S("pro"), S("do"), S("od"), S("v"), S("ve"), S("s"),
     S("z"), S("extra"), S("vyrovnavaci")}

CONTINUATION_TRIGGERS ==
    {S("na"), S("pres"), S("za"), S("pro"), S("do"), S("od"), S("v"), S("ve"), S("s"),
     S("z"), S("extra"), S("vyrovnavaci")}

(***************************************************************************)
(* Text normalizer, line classifiers, value parsers                        *)
(***************************************************************************)

normalize_text(text) ==
    StrLower(SelectSeq(Flatten([i \in 1..Len(text) |-> NFKD(text[i])]), IsAscii))

is_label_line(line) ==
    LET n == normalize_text(line)
    IN Contains(n, S("datum proved")) /\ Contains(n, S("transakce"))

is_message_line(line) == StartsWith(normalize_text(line), S("zpr"))

is_ignored_line(line) ==
    \/ Strip(line) = <<>>
    \/ Match(PAGE_RE, Strip(line)).found
    \/ \E sub \in IGNORE_SUBSTRINGS : Contains(normalize_text(line), sub)

append_field(tx, key, value) ==
    IF ~Truthy(value) THEN tx
    ELSE IF Truthy(Get(tx, key)) THEN Put(tx, key, tx[key] \o S(" | ") \o value)
    ELSE Put(tx, key, value)

\* float(s) for s of the shape digits[.digits], and repr of the result: the
\* integer part without leading zeros, the fraction without trailing zeros.
\* None stands for the ValueError of any other s.
RECURSIVE DropLeadingZeros(_)
DropLeadingZeros(s) ==
    IF Len(s) > 1 /\ Head(s) = "0" THEN DropLeadingZeros(Tail(s)) ELSE s

RECURSIVE DropTrailingZeros(_)
DropTrailingZeros(s) ==
    IF Len(s) > 1 /\ s[Len(s)] = "0" THEN DropTrailingZeros(SubSeq(s, 1, Len(s) - 1)) ELSE s

IsDigits(s) == \A i \in 1..Len(s) : s[i] \in Digit

FloatOf(int, frac) ==
    IF IsDigits(int) /\ IsDigits(frac) /\ Len(int) + Len(frac) > 0
    THEN DropLeadingZeros(IF int = <<>> THEN <<"0">> ELSE int) \o <<".">>
         \o DropTrailingZeros(IF frac = <<>> THEN <<"0">> ELSE frac)
    ELSE None

\* s cut at its first "." (dot is where that is, 0 when there is none)
FloatAt(s, dot) ==
    FloatOf(IF dot = 0 THEN s ELSE SubSeq(s, 1, dot - 1),
            IF dot = 0 THEN <<>> ELSE SubSeq(s, dot + 1, Len(s)))

Float(s) == FloatAt(s, Find(s, <<".">>))

\* "." dropped as the thousands separator when there is a ",", then "," made "."
DecimalPoint(s) ==
    Replace(IF Contains(s, <<",">>) THEN Replace(s, <<".">>, <<>>) ELSE s, <<",">>, <<".">>)

\* -value if negative else value, None when float() raised
Signed(negative, value) ==
    IF value = None THEN None
    ELSE IF negative THEN <<"-">> \o value ELSE value

cz_amount_to_float(s) ==
    Signed(StartsWith(Strip(s), <<"-">>),
           Float(DecimalPoint(
               Replace(Replace(Strip(Replace(Strip(s), <<"-">>, <<>>)), <<" ">>, <<>>),
                       <<"U+00A0">>, <<>>))))

normalize_currency_token(token) ==
    IF ~Truthy(token) THEN None
    ELSE LET t == StrUpper(Strip(token))
         IN IF StartsWith(t, <<"K">>) THEN S("CZK") ELSE t

looks_like_code_fragment(token0) ==
    LET token == Strip(token0)
    IN /\ Len(token) >= 8
       /\ \A i \in 1..Len(token) : token[i] \in Digit \cup Upper \cup Lower
       /\ \E i \in 1..Len(token) : token[i] \in Digit

(***************************************************************************)
(* Header field extractor                                                  *)
(***************************************************************************)

\* a or b or c on match objects: the first that found something
FirstFound(ms) ==
    IF \E i \in 1..Len(ms) : ms[i].found
    THEN ms[CHOOSE i \in 1..Len(ms) : ms[i].found /\ \A j \in 1..(i - 1) : ~ms[j].found]
    ELSE NoMatch

\* s[i:], i counted from 1
From(s, i) == SubSeq(s, i, Len(s))

\* The locals of parse_header_line after the amount is cut off the line
HeaderAmount(line, m_date, m_amount) ==
    [Datum |-> Strip(Group(m_date, line, "g1")),
     amount_text |-> IF m_amount.found THEN Strip(Group(m_amount, line, "amount")) ELSE None,
     header_currency |->
         IF m_amount.found THEN normalize_currency_token(Group(m_amount, line, "currency"))
         ELSE None,
     header_without_amount |->
         Strip(From(IF m_amount.found THEN Slice(line, 1, m_amount.start) ELSE line,
                    m_date.end))]

HeaderCardNetwork(v) ==
    Put(v, "card_network",
        IF Search(VisaRe, v.header_without_amount).found THEN S("VISA")
        ELSE IF Search(MastercardRe, v.header_without_amount).found THEN S("MASTERCARD")
        ELSE None)

HeaderCardAt(v, m_card) ==
    LET card == Strip(Slice(v.header_without_amount, m_card.start, m_card.end))
    IN IF m_card.found
       THEN Put(Put(v, "card", card),
                "header_without_amount", Replace(v.header_without_amount, card, <<" ">>))
       ELSE Put(v, "card", None)

HeaderCard(v) ==
    HeaderCardAt(v, FirstFound(<<Search(CARD_MASK_RE, v.header_without_amount),
                                 Search(CARD_MASK_X_RE, v.header_without_amount),
                                 Search(CARD_MASK_STAR_RE, v.header_without_amount)>>))

HeaderNetworkRemoved(v) ==
    IF v.card_network = S("VISA")
    THEN Put(v, "header_without_amount", Sub(VisaRe, <<" ">>, v.header_without_amount))
    ELSE IF v.card_network = S("MASTERCARD")
    THEN Put(v, "header_without_amount", Sub(MastercardRe, <<" ">>, v.header_without_amount))
    ELSE v

HeaderAccountAt(v, m_acc) ==
    LET account == Slice(v.header_without_amount, m_acc.start, m_acc.end)
    IN IF m_acc.found
       THEN Put(Put(v, "account", account),
                "header_without_amount", Replace(v.header_without_amount, account, <<" ">>))
       ELSE Put(v, "account", None)

HeaderAccount(v) ==
    HeaderAccountAt(v, FirstFound(<<Search(ACCOUNT_RE, v.header_without_amount),
                                    Search(ACCOUNT_RE2, v.header_without_amount)>>))

\* the dict returned, v being the locals and counterparty the last of them
HeaderFields(v, counterparty) ==
    ("Datum" :> v.Datum)
    @@ ("Popis_hlavicka" :> IF Truthy(counterparty) THEN counterparty ELSE None)
    @@ ("Protistrana" :> counterparty)
    @@ ("Protiucet" :> v.account)
    @@ ("Karta" :> v.card)
    @@ ("Karta_sit" :> v.card_network)
    @@ ("Castka_raw" :> v.amount_text)
    @@ ("Castka_CZK" :>
            IF Truthy(v.amount_text) THEN cz_amount_to_float(v.amount_text) ELSE None)
    @@ ("Mena_hlavicka" :> v.header_currency)

HeaderCounterparty(v) ==
    HeaderFields(v, Strip(Sub(Rep(Sp, 2, Inf), <<" ">>, v.header_without_amount)))

\* the result is [ok |-> FALSE] for None, else [ok |-> TRUE, fields |-> the dict]
parse_header_line(line) ==
    IF ~Match(DATE_RE, line).found THEN [ok |-> FALSE, fields |-> <<>>]
    ELSE [ok |-> TRUE,
          fields |->
              HeaderCounterparty(HeaderAccount(HeaderNetworkRemoved(HeaderCard(
                  HeaderCardNetwork(HeaderAmount(line, Match(DATE_RE, line),
                                                 Search(HEADER_AMOUNT_RE, line)))))))]

(***************************************************************************)
(* Detail main line, type continuation                                     *)
(***************************************************************************)

\* the "-" of an absent symbol kept as it is
KeepSymbol(val) == val

clean_symbol(val) == IF val = <<"-">> THEN <<>> ELSE val

\* the pair <<detail_info, ttype>> for the date and the tokens after it
DetailTokens(exec_date, tokens) ==
    LET n == Len(tokens)
        ttype == Strip(Join(<<" ">>, SubSeq(tokens, 2, n - 3)))
    IN IF n < 4 THEN <<("Datum_provedeni" :> exec_date), None>>
       ELSE <<("Datum_provedeni" :> exec_date)
                @@ ("Kod_transakce" :> tokens[1])
                @@ ("Typ_transakce" :> ttype)
                @@ ("VS" :> clean_symbol(tokens[n - 2]))
                @@ ("SS" :> clean_symbol(tokens[n - 1]))
                @@ ("KS" :> clean_symbol(tokens[n])),
              ttype>>

DetailAt(line, m_date) ==
    IF ~m_date.found THEN <<<<>>, None>>
    ELSE DetailTokens(Strip(Group(m_date, line, "g1")), Split(Strip(From(line, m_date.end))))

\* the pair <<detail_info, ttype>>
parse_detail_main_line(line) == DetailAt(line, Match(DATE_RE, line))

\* the checks of should_append_type that come before n_type.split()[-1]
AppendTypeRefused(line, current_type) ==
    \/ Strip(line) = <<>>
    \/ Contains(line, <<":">>)
    \/ Contains(line, S(" - "))
    \/ Contains(line, <<"/">>)
    \/ Contains(line, <<"*">>)
    \/ StartsWith(normalize_text(line), S("popis pro me"))
    \/ StartsWith(normalize_text(line), S("id souvisejici"))
    \/ normalize_text(IF Truthy(current_type) THEN current_type ELSE <<>>) = <<>>

\* n_type.split()[-1] raises IndexError when n_type holds only whitespace
should_append_type_raises(line, current_type) ==
    /\ ~AppendTypeRefused(line, current_type)
    /\ Split(normalize_text(current_type)) = <<>>

should_append_type(line, current_type) ==
    /\ ~AppendTypeRefused(line, current_type)
    /\ ~should_append_type_raises(line, current_type)
    /\ LET words == Split(normalize_text(current_type))
       IN \/ words[Len(words)] \in CONTINUATION_TRIGGERS
          \/ /\ Len(words) = 1
             /\ Len(Split(line)) <= 2
             /\ \A i \in 1..Len(line) : line[i] \notin Digit

(***************************************************************************)
(* Foreign-exchange line parser, misc handler                              *)
(***************************************************************************)

\* tx[key] = value unless tx.get(key) is already truthy
SetIfUnset(tx, key, value) == IF Truthy(Get(tx, key)) THEN tx ELSE Put(tx, key, value)

FxRate(line, tx, m_rate) ==
    SetIfUnset(SetIfUnset(tx, "FX_kurz", Replace(Group(m_rate, line, "rate"), <<" ">>, <<>>)),
               "FX_kurz_mena", Group(m_rate, line, "currency"))

FxInfo(tx, prefix) == IF Truthy(prefix) THEN SetIfUnset(tx, "FX_info", prefix) ELSE tx

FxDateAmount(line, tx, m_fx) ==
    FxInfo(SetIfUnset(
               SetIfUnset(SetIfUnset(tx, "FX_datum", Group(m_fx, line, "date")),
                          "FX_castka", Replace(Group(m_fx, line, "amount"), <<" ">>, <<>>)),
               "FX_mena", Group(m_fx, line, "currency")),
           Strip(Slice(line, 1, m_fx.start)))

FxAmountOnly(line, tx, m_amt) ==
    SetIfUnset(SetIfUnset(tx, "FX_castka", Replace(Group(m_amt, line, "amount"), <<" ">>, <<>>)),
               "FX_mena", Group(m_amt, line, "currency"))

\* the date and amount shape tried before the rate shape
FxShapesDateFirst(line, tx, m_rate, m_fx, m_amt) ==
    IF m_fx.found THEN [ok |-> TRUE, tx |-> FxDateAmount(line, tx, m_fx)]
    ELSE IF m_amt.found THEN [ok |-> TRUE, tx |-> FxAmountOnly(line, tx, m_amt)]
    ELSE IF m_rate.found THEN [ok |-> TRUE, tx |-> FxRate(line, tx, m_rate)]
    ELSE [ok |-> Contains(StrLower(line), S("kurz")), tx |-> tx]

\* the patterns in the order the source tries them
FxShapes(line, tx, m_rate, m_fx, m_amt) ==
    IF m_rate.found THEN [ok |-> TRUE, tx |-> FxRate(line, tx, m_rate)]
    ELSE IF m_fx.found THEN [ok |-> TRUE, tx |-> FxDateAmount(line, tx, m_fx)]
    ELSE IF m_amt.found THEN [ok |-> TRUE, tx |-> FxAmountOnly(line, tx, m_amt)]
    ELSE [ok |-> Contains(StrLower(line), S("kurz")), tx |-> tx]

\* [ok |-> the value returned, tx |-> tx as the call leaves it]
parse_fx_line(line, tx) ==
    FxShapes(line, tx, Match(FX_RATE_RE, line), Search(FX_DATE_AMOUNT_RE, line),
             Match(FX_AMOUNT_ONLY_RE, line))

\* [tx |-> tx, extra |-> extra_lines] as the call leaves them
handle_misc_line(line, tx, extra_lines) ==
    LET n == normalize_text(line)
        value == Strip(AfterFirstColon(line))
    IN IF is_ignored_line(line) THEN [tx |-> tx, extra |-> extra_lines]
       ELSE IF StartsWith(n, S("popis pro me"))
       THEN [tx |-> SetIfUnset(tx, "Popis_pro_me", value), extra |-> extra_lines]
       ELSE IF StartsWith(n, S("id souvisejici platby"))
       THEN [tx |-> SetIfUnset(tx, "ID_souvisejici_platby", value), extra |-> extra_lines]
       ELSE IF StartsWith(n, S("atm id"))
       THEN [tx |-> SetIfUnset(tx, "ATM_ID", value), extra |-> extra_lines]
       ELSE [tx |-> tx, extra |-> Append(extra_lines, Strip(line))]

\* fx being what parse_fx_line made of the line: handle_misc_line when it
\* returned False
MiscUnlessFx(line, extra_lines, fx) ==
    IF fx.ok THEN [tx |-> fx.tx, extra |-> extra_lines]
    ELSE handle_misc_line(line, fx.tx, extra_lines)

FxOrMisc(line, st) == MiscUnlessFx(line, st.extra, parse_fx_line(line, st.tx))

(***************************************************************************)
(* Detail body walker.  st is [tx |-> tx, extra |-> extra_lines].          *)
(***************************************************************************)

\* the first loop of parse_detail_lines: the lines before the detail main line
RECURSIVE BeforeMainLine(_, _, _)
BeforeMainLine(ls, idx, st) ==
    IF idx <= Len(ls) /\ ~Match(DATE_RE, ls[idx]).found
    THEN BeforeMainLine(ls, idx + 1, FxOrMisc(ls[idx], st))
    ELSE [idx |-> idx, tx |-> st.tx, extra |-> st.extra]

Stopped(idx, tx, extra_lines, raised) ==
    [idx |-> idx, tx |-> tx, extra |-> extra_lines, raised |-> raised]

\* the second loop of parse_detail_lines: the lines after the detail main line
RECURSIVE AfterMainLine(_, _, _)

\* the code fragment first glued to Kod_transakce, the rest of the line to
\* Typ_transakce
CodeFragment(tx, tokens) ==
    LET extra_type == Strip(Join(<<" ">>, Tail(tokens)))
        t1 == Put(tx, "Kod_transakce", Strip(tx["Kod_transakce"] \o tokens[1]))
    IN IF Len(tokens) > 1 /\ Truthy(extra_type)
       THEN Put(t1, "Typ_transakce", Strip(tx["Typ_transakce"] \o <<" ">> \o extra_type))
       ELSE t1

\* one turn of the loop on ls[idx], fx being what parse_fx_line made of it
AfterStep(ls, idx, st, fx) ==
    LET line == ls[idx]
        tokens == Split(Strip(line))
        typ == Get(st.tx, "Typ_transakce")
    IN IF is_message_line(line) THEN Stopped(idx, st.tx, st.extra, FALSE)
       ELSE IF fx.ok THEN Stopped(idx, fx.tx, st.extra, FALSE)
       ELSE IF Match(DATE_RE, line).found THEN Stopped(idx, st.tx, st.extra, FALSE)
       ELSE IF is_ignored_line(line) THEN AfterMainLine(ls, idx + 1, st)
       ELSE IF /\ tokens # <<>>
               /\ Truthy(Get(st.tx, "Kod_transakce"))
               /\ looks_like_code_fragment(tokens[1])
       THEN AfterMainLine(ls, idx + 1, [tx |-> CodeFragment(st.tx, tokens), extra |-> st.extra])
       ELSE IF should_append_type_raises(line, typ) THEN Stopped(idx, st.tx, st.extra, TRUE)
       ELSE IF should_append_type(line, typ)
       THEN AfterMainLine(ls, idx + 1,
                          [tx |-> Put(st.tx, "Typ_transakce",
                                      Strip(typ \o <<" ">> \o Strip(line))),
                           extra |-> st.extra])
       ELSE AfterMainLine(ls, idx + 1, handle_misc_line(line, st.tx, st.extra))

AfterMainLine(ls, idx, st) ==
    IF idx > Len(ls) THEN Stopped(idx, st.tx, st.extra, FALSE)
    ELSE AfterStep(ls, idx, st, parse_fx_line(ls[idx], st.tx))

\* a being where the first loop stopped: the detail main line, then the second loop
DetailFrom(ls, a) ==
    IF a.idx > Len(ls) THEN Stopped(a.idx, a.tx, a.extra, FALSE)
    ELSE AfterMainLine(ls, a.idx + 1,
                       [tx |-> Update(a.tx, parse_detail_main_line(ls[a.idx])[1]),
                        extra |-> a.extra])

\* [idx, extra |-> extra_lines] as returned (idx counted from 1: the next line to
\* read), tx as the call leaves it, raised when the call ends in IndexError
parse_detail_lines(ls, tx) ==
    DetailFrom(ls, BeforeMainLine(ls, 1, [tx |-> tx, extra |-> <<>>]))

(***************************************************************************)
(* Transaction assembler                                                   *)
(***************************************************************************)

\* line.split(":", 1)[-1].strip() if ":" in line else line.strip()
MessageText(line) ==
    IF Contains(line, <<":">>) THEN Strip(AfterFirstColon(line)) ELSE Strip(line)

\* the lines after the walk stops (post_lines[idx_after:])
RECURSIVE RemainingLines(_, _, _)
RemainingLines(ls, idx, st) ==
    IF idx > Len(ls) THEN st
    ELSE IF is_ignored_line(ls[idx]) THEN RemainingLines(ls, idx + 1, st)
    ELSE IF is_message_line(ls[idx])
    THEN RemainingLines(ls, idx + 1,
                        [tx |-> append_field(st.tx, "Zprava", MessageText(ls[idx])),
                         extra |-> st.extra])
    ELSE RemainingLines(ls, idx + 1, FxOrMisc(ls[idx], st))

RECURSIVE PreLines(_, _, _)
PreLines(ls, idx, st) ==
    IF idx > Len(ls) THEN st
    ELSE PreLines(ls, idx + 1, FxOrMisc(ls[idx], st))

\* tx["FX_mena"] = tx.get("Mena_hlavicka") or "CZK" unless FX_mena is set
DefaultFxMena(tx) ==
    IF Truthy(Get(tx, "FX_mena")) THEN tx
    ELSE Put(tx, "FX_mena",
             IF Truthy(Get(tx, "Mena_hlavicka")) THEN tx["Mena_hlavicka"] ELSE S("CZK"))

\* the FX currency default, the audit text, and the header currency dropped
Finalize(tx, block_lines) ==
    Pop(Put(DefaultFxMena(tx), "Blok_text", Join(S(" | "), block_lines)), "Mena_hlavicka")

NoTx == <<>>

\* st being the state after the last loop: Doplnek, then the closing steps
BlockDone(block_lines, st) ==
    [kind |-> "record",
     tx |-> Finalize(IF st.extra # <<>>
                     THEN Put(st.tx, "Doplnek", Join(S(" | "), SelectSeq(st.extra, Truthy)))
                     ELSE st.tx,
                     block_lines)]

\* b being what parse_detail_lines returned, extra_lines the list before the call
BlockAfterDetail(block_lines, post_lines, extra_lines, b) ==
    IF b.raised THEN [kind |-> "IndexError", tx |-> NoTx]
    ELSE BlockDone(block_lines,
                   RemainingLines(post_lines, b.idx,
                                  [tx |-> b.tx, extra |-> extra_lines \o b.extra]))

\* st being the state after the loop over pre_lines
BlockDetail(block_lines, post_lines, st) ==
    BlockAfterDetail(block_lines, post_lines, st.extra, parse_detail_lines(post_lines, st.tx))

\* labels being the indexes of the label lines of the block
BlockBody(block_lines, tx, labels) ==
    LET label_idx == CHOOSE i \in labels : \A j \in labels : i <= j
    IN IF labels = {} THEN [kind |-> "record", tx |-> Finalize(tx, block_lines)]
       ELSE BlockDetail(block_lines, From(block_lines, label_idx + 1),
                        PreLines(SubSeq(block_lines, 2, label_idx - 1), 1,
                                 [tx |-> tx, extra |-> <<>>]))

BlockWithHeader(block_lines, header) ==
    IF ~header.ok THEN [kind |-> "None", tx |-> NoTx]
    ELSE BlockBody(block_lines,
                   Update([c \in {COLUMNS[i] : i \in 1..Len(COLUMNS)} |-> None], header.fields),
                   {i \in 1..Len(block_lines) : is_label_line(block_lines[i])})

\* [kind |-> "record", tx |-> the dict returned], [kind |-> "None"] when None is
\* returned, [kind |-> "IndexError"] when the call raises
process_block(block_lines) == BlockWithHeader(block_lines, parse_header_line(block_lines[1]))

(***************************************************************************)
(* extract_transactions: the segmentation loop, then one process_block     *)
(* per block.  lines is the line stream read from the document.            *)
(***************************************************************************)

IsHeaderLine(line) == Match(HEADER_RE, line).found

\* the open block forgotten instead of closed
CloseBlockLost(bs, cur) == bs

\* if current: blocks.append(current)
CloseBlock(bs, cur) == IF cur # <<>> THEN Append(bs, cur) ELSE bs

\* a header-shaped line closes the open block and opens the next one
SegmentHeader ==
    /\ pc = "segment"
    /\ pos <= Len(lines)
    /\ IsHeaderLine(lines[pos])
    /\ blocks' = CloseBlock(blocks, current)
    /\ current' = <<lines[pos]>>
    /\ pos' = pos + 1
    /\ UNCHANGED <<lines, bi, transactions, pc, arg, ret>>

\* any other line joins the open block
SegmentAppend ==
    /\ pc = "segment"
    /\ pos <= Len(lines)
    /\ ~IsHeaderLine(lines[pos])
    /\ current # <<>>
    /\ current' = Append(current, lines[pos])
    /\ pos' = pos + 1
    /\ UNCHANGED <<lines, blocks, bi, transactions, pc, arg, ret>>

\* ... and is dropped when no block is open yet
SegmentDiscard ==
    /\ pc = "segment"
    /\ pos <= Len(lines)
    /\ ~IsHeaderLine(lines[pos])
    /\ current = <<>>
    /\ pos' = pos + 1
    /\ UNCHANGED <<lines, current, blocks, bi, transactions, pc, arg, ret>>

\* the end of the stream closes the last block
SegmentEnd ==
    /\ pc = "segment"
    /\ pos > Len(lines)
    /\ blocks' = CloseBlock(blocks, current)
    /\ pc' = "process"
    /\ UNCHANGED <<lines, pos, current, bi, transactions, arg, ret>>

\* tx = process_block(block); if tx: transactions.append(tx)
ProcessNext ==
    /\ pc = "process"
    /\ bi <= Len(blocks)
    /\ LET r == process_block(blocks[bi])
       IN IF r.kind = "IndexError"
          THEN /\ pc' = "raised"
               /\ UNCHANGED <<bi, transactions>>
          ELSE /\ transactions' =
                      IF r.kind = "record" THEN Append(transactions, r.tx) ELSE transactions
               /\ bi' = bi + 1
               /\ pc' = pc
    /\ UNCHANGED <<lines, pos, current, blocks, arg, ret>>

\* return transactions
Return ==
    /\ pc = "process"
    /\ bi > Len(blocks)
    /\ pc' = "done"
    /\ UNCHANGED <<lines, pos, current, blocks, bi, transactions, arg, ret>>

Next == SegmentHeader \/ SegmentAppend \/ SegmentDiscard \/ SegmentEnd \/ ProcessNext \/ Return

\* extract_transactions as it starts on the stream input
Start(input) ==
    /\ lines = input
    /\ pos = 1
    /\ current = <<>>
    /\ blocks = <<>>
    /\ bi = 1
    /\ transactions = <<>>
    /\ pc = "segment"
    /\ arg = None
    /\ ret = <<>>

\* the sequences over pool of length at most n
RECURSIVE SeqsUpTo(_, _)
SeqsUpTo(pool, n) ==
    IF n = 0 THEN {<<>>}
    ELSE LET shorter == SeqsUpTo(pool, n - 1)
         IN shorter \cup {Append(s, x) : s \in shorter, x \in pool}

(***************************************************************************)
(* Spec: every stream of at most MaxLines lines over StreamPool            *)
(***************************************************************************)

MaxLines == 4

HeaderA == S("1. 2. 2024 A 5,00 CZK")
LabelA == S("Datum proveden") \o <<"U+00ED">> \o S(" transakce")
DetailDiaeresis == S("1. 2. 2024 C ") \o <<"U+00A8">> \o S(" - - -")
PlainA == S("abc")
PopisA == S("Popis pro me: x")

StreamPool == {HeaderA, LabelA, DetailDiaeresis, PlainA, PopisA}

Init == \E input \in SeqsUpTo(StreamPool, MaxLines) : Start(input)

Spec == Init /\ [][Next]_vars

(***************************************************************************)
(* Properties of extract_transactions, checked on Spec                     *)
(***************************************************************************)

\* how many lines the segmentation loop has read
Consumed == IF pc = "segment" THEN pos - 1 ELSE Len(lines)

\* where the first header-shaped line among the first n lines stands (n + 1: nowhere)
FirstHeader(n) ==
    IF \E i \in 1..n : IsHeaderLine(lines[i])
    THEN CHOOSE i \in 1..n : IsHeaderLine(lines[i]) /\ \A j \in 1..(i - 1) : ~IsHeaderLine(lines[j])
    ELSE n + 1

\* the lines before the first header-shaped line, among the first n
DiscardedPrefix(n) == SubSeq(lines, 1, FirstHeader(n) - 1)

\* C1: at every step of the segmentation loop, and after it, the lines read so
\* far are exactly the discarded prefix (the lines before the first
\* header-shaped line), then the lines of the closed blocks in block order, then
\* the lines of the open block: no line is lost, duplicated or reordered.  Each
\* block starts with the only header-shaped line it holds.
SegmentationCoverage ==
    /\ SubSeq(lines, 1, Consumed) =
           DiscardedPrefix(Consumed) \o Flatten(blocks)
           \o (IF pc = "segment" THEN current ELSE <<>>)
    /\ \A i \in 1..Len(blocks) :
           /\ blocks[i] # <<>>
           /\ \A k \in 1..Len(blocks[i]) : IsHeaderLine(blocks[i][k]) <=> k = 1

\* a finished run that discarded a prefix and closed two blocks, one of them
\* of several lines
SegmentationCoverageWitness ==
    /\ pc = "done"
    /\ DiscardedPrefix(Len(lines)) # <<>>
    /\ Len(blocks) >= 2
    /\ \E i \in 1..Len(blocks) : Len(blocks[i]) >= 2

\* some field of tx other than the audit text holds a word of the line
LeavesTrace(line, tx) ==
    \E key \in (DOMAIN tx) \ {"Blok_text"} :
        \E k \in 1..Len(Split(Strip(line))) : Contains(tx[key], Split(Strip(line))[k])

\* C2: once the run is done, every line of every block, the label line and
\* the ignorable lines aside, is accounted for in a field of the block's record
\* other than the audit text (a header, detail, FX, message or supplement
\* field holds at least a word of it) - with or without a label line in the block.
NoSilentLoss ==
    pc = "done" =>
        \A i \in 1..Len(blocks) : \A k \in 1..Len(blocks[i]) :
            (~is_label_line(blocks[i][k]) /\ ~is_ignored_line(blocks[i][k]))
                => LeavesTrace(blocks[i][k], transactions[i])

\* C3: all the records returned have the same field names, the columns of
\* COLUMNS among them, whatever lines their blocks hold.
FixedFieldSet ==
    \A i \in 1..Len(transactions) :
        /\ {COLUMNS[c] : c \in 1..Len(COLUMNS)} \subseteq DOMAIN transactions[i]
        /\ DOMAIN transactions[i] = DOMAIN transactions[1]

\* C10: no block makes the run end without its record; a finished run returns
\* one record per header-shaped line of the input, in the order of those
\* lines, each with a transaction date and an FX currency.
OneRecordPerBlock ==
    /\ pc # "raised"
    /\ pc = "done" =>
           /\ Len(transactions) = Cardinality({i \in 1..Len(lines) : IsHeaderLine(lines[i])})
           /\ \A i \in 1..Len(transactions) :
                  /\ transactions[i]["Blok_text"] = Join(S(" | "), blocks[i])
                  /\ Truthy(transactions[i]["Datum"])
                  /\ Truthy(transactions[i]["FX_mena"])

(***************************************************************************)
(* SpecBlock: process_block applied to one block                           *)
(***************************************************************************)

\* no stream is being read
Idle ==
    /\ lines = <<>>
    /\ pos = 1
    /\ current = <<>>
    /\ blocks = <<>>
    /\ bi = 1
    /\ transactions = <<>>

\* ret = process_block(arg)
CallProcessBlock ==
    /\ pc = "call"
    /\ ret' = process_block(arg)
    /\ pc' = "returned"
    /\ UNCHANGED <<lines, pos, current, blocks, bi, transactions, arg>>

NextBlock == CallProcessBlock

LabelUpper == S("DATUM PROVEDENI TRANSAKCE")
LabelLines == {LabelA, LabelUpper}

\* the block of the simple purchase, with either label line
PurchaseHeader == S("12. 3. 2024 SOME SHOP LTD 123456 45** **** 7890 -456,00 CZK")
PurchaseDetail == S("13. 3. 2024 CODE PLATBA KARTOU - - -")
PurchaseBlocks == {<<PurchaseHeader, l, PurchaseDetail>> : l \in LabelLines}

\* the blocks whose body holds the FX amount line followed by the FX rate line
\* in the preamble: at most MaxAround plain lines before and after the two,
\* then a label line, then the detail main line or nothing
MaxAround == 1
FxAmountLine == S("10.3.2024 50,00 USD")
FxRateLine == S("1 USD = 22,50 Kc")
FxBlocks ==
    {<<HeaderA>> \o pre \o <<FxAmountLine, FxRateLine>> \o mid \o <<l>> \o post :
        pre \in SeqsUpTo({PlainA}, MaxAround),
        mid \in SeqsUpTo({PlainA}, MaxAround),
        l \in LabelLines,
        post \in {<<>>, <<PurchaseDetail>>}}

\* the blocks whose detail main line gives a type ending in "za", followed by
\* a line of at most MaxPhrases phrases without digits or punctuation
MaxPhrases == 2
ContinuationDetail == S("13. 3. 2024 CODE POPLATEK za - - -")
ContinuationPhrases ==
    {S("sluzby"), S(" vedeni uctu "), S("Zpr") \o <<"U+00E1">> \o S("vy"), S("kurzy"),
     S("iban"), S("Popis pro me"), S("ID souvisejici"), S("KURZ")}
ContinuationLines ==
    {Join(<<" ">>, ws) : ws \in SeqsUpTo(ContinuationPhrases, MaxPhrases) \ {<<>>}}
ContinuationBlocks ==
    {<<HeaderA, l, ContinuationDetail, c>> : l \in LabelLines, c \in ContinuationLines}

\* the blocks with one ignorable line put somewhere into the body of a block
\* that goes through every phase
MessageA == S("Zprava: hello")
IgnoredBase == <<HeaderA, PlainA, LabelA, PlainA, PurchaseDetail, PlainA, MessageA, PlainA>>
IgnorableLines == {<<>>, S("  "), S("3/7"), S("IBAN CZ00"), S("1. 1. 2024 iban"), S("50,00 USD iban")}
InsertAt(s, i, x) == SubSeq(s, 1, i - 1) \o <<x>> \o SubSeq(s, i, Len(s))
RemoveAt(s, i) == SubSeq(s, 1, i - 1) \o SubSeq(s, i + 1, Len(s))
IgnoredBlocks ==
    {InsertAt(IgnoredBase, i, x) : i \in 2..(Len(IgnoredBase) + 1), x \in IgnorableLines}

InitBlock ==
    \E b \in PurchaseBlocks \cup FxBlocks \cup ContinuationBlocks \cup IgnoredBlocks :
        /\ Idle
        /\ arg = b
        /\ ret = <<>>
        /\ pc = "call"

SpecBlock == InitBlock /\ [][NextBlock]_vars

\* C5: for every block whose body holds "10.3.2024 50,00 USD" followed by
\* "1 USD = 22,50 Kc", the record has FX currency USD, FX amount 50,00, FX rate
\* 22,50 and FX rate quote currency CZK.
FxScenario ==
    (pc = "returned" /\ arg \in FxBlocks) =>
        /\ ret.kind = "record"
        /\ Get(ret.tx, "FX_mena") = S("USD")
        /\ Get(ret.tx, "FX_castka") = S("50,00")
        /\ Get(ret.tx, "FX_kurz") = S("22,50")
        /\ Get(ret.tx, "FX_kurz_mena") = S("CZK")

\* C6: for the block made of the purchase header, a label line and the
\* purchase detail line, the record has the date "12. 3. 2024" and the execution
\* date "13. 3. 2024" as written in the lines, no card mask, the counterparty
\* "SOME SHOP LTD 123456 45** **** 7890", the amount -456.0, the code CODE,
\* the type PLATBA KARTOU and three empty payment symbols.
PurchaseRecord ==
    (pc = "returned" /\ arg \in PurchaseBlocks) =>
        /\ ret.kind = "record"
        /\ ret.tx["Datum"] = S("12. 3. 2024")
        /\ ret.tx["Protistrana"] = S("SOME SHOP LTD 123456 45** **** 7890")
        /\ ret.tx["Karta"] = None
        /\ ret.tx["Castka_CZK"] = S("-456.0")
        /\ ret.tx["Datum_provedeni"] = S("13. 3. 2024")
        /\ ret.tx["Kod_transakce"] = S("CODE")
        /\ ret.tx["Typ_transakce"] = S("PLATBA KARTOU")
        /\ ret.tx["VS"] = <<>> /\ ret.tx["SS"] = <<>> /\ ret.tx["KS"] = <<>>

\* process_block has returned the record of a purchase block
PurchaseRecordWitness ==
    pc = "returned" /\ arg \in PurchaseBlocks /\ ret.kind = "record"

\* C6 as the scenario words it: date 12.3.2024, counterparty SOME SHOP LTD,
\* card mask 123456 45** **** 7890, amount -456.00, execution date 13.3.2024,
\* code CODE, type PLATBA KARTOU, the three symbols empty.
PurchaseRecordAsWritten ==
    (pc = "returned" /\ arg \in PurchaseBlocks) =>
        /\ ret.kind = "record"
        /\ ret.tx["Datum"] = S("12.3.2024")
        /\ ret.tx["Protistrana"] = S("SOME SHOP LTD")
        /\ ret.tx["Karta"] = S("123456 45** **** 7890")
        /\ ret.tx["Castka_CZK"] = S("-456.0")
        /\ ret.tx["Datum_provedeni"] = S("13.3.2024")
        /\ ret.tx["Kod_transakce"] = S("CODE")
        /\ ret.tx["Typ_transakce"] = S("PLATBA KARTOU")
        /\ ret.tx["VS"] = <<>> /\ ret.tx["SS"] = <<>> /\ ret.tx["KS"] = <<>>

\* the lines after a type ending in "za" that the walker does not take as its
\* continuation: a message line, a line mentioning "kurz", an ignorable line,
\* a description or a related-payment line
NotTypeContinuation(line) ==
    \/ is_message_line(line)
    \/ Contains(StrLower(line), S("kurz"))
    \/ is_ignored_line(line)
    \/ StartsWith(normalize_text(line), S("popis pro me"))
    \/ StartsWith(normalize_text(line), S("id souvisejici"))

\* C7: when the type of the detail main line ends in "za" and the next line
\* is a short line without digits or punctuation, the trimmed line is appended
\* to the type with a single space - unless the line is a message line,
\* mentions "kurz", is ignorable or starts with "popis pro me" or
\* "id souvisejici": then the type stays as it was.
TypeContinuation ==
    (pc = "returned" /\ arg \in ContinuationBlocks) =>
        /\ ret.kind = "record"
        /\ ret.tx["Typ_transakce"] =
               IF NotTypeContinuation(arg[4]) THEN S("POPLATEK za")
               ELSE S("POPLATEK za ") \o Strip(arg[4])

\* a continuation line of two words has been appended to the type
TypeContinuationWitness ==
    /\ pc = "returned"
    /\ arg \in ContinuationBlocks
    /\ ret.tx["Typ_transakce"] = S("POPLATEK za vedeni uctu")

\* C7 as claimed: every such line is appended, whatever words it contains.
TypeAlwaysContinued ==
    (pc = "returned" /\ arg \in ContinuationBlocks) =>
        /\ ret.kind = "record"
        /\ ret.tx["Typ_transakce"] = S("POPLATEK za ") \o Strip(arg[4])

\* what process_block returned, the audit text aside
WithoutAudit(r) ==
    IF r.kind = "record" THEN [kind |-> r.kind, tx |-> Pop(r.tx, "Blok_text")] ELSE r

\* C8: an ignorable line of the body, wherever it stands, changes nothing but
\* the audit text: the block gives the record it gives without that line.
IgnoredLinesDropped ==
    (pc = "returned" /\ arg \in IgnoredBlocks) =>
        \A k \in 2..Len(arg) :
            (is_ignored_line(arg[k]) /\ ~is_label_line(arg[k]))
                => WithoutAudit(ret) = WithoutAudit(process_block(RemoveAt(arg, k)))

(***************************************************************************)
(* SpecCurrency: normalize_currency_token applied to a token, and again    *)
(* to what it returned                                                     *)
(***************************************************************************)

MaxToken == 3
CurrencyChars == {" ", "K", "k", "c", "E", "u"}
CurrencyTokens == SeqsUpTo(CurrencyChars, MaxToken) \cup {None}

InitCurrency ==
    \E token \in CurrencyTokens :
        /\ Idle
        /\ arg = token
        /\ ret = <<>>
        /\ pc = "call"

\* ret = [normalize_currency_token(arg)]
Normalize ==
    /\ pc = "call"
    /\ ret' = <<normalize_currency_token(arg)>>
    /\ pc' = "once"
    /\ UNCHANGED <<lines, pos, current, blocks, bi, transactions, arg>>

\* ret.append(normalize_currency_token(ret[0]))
NormalizeAgain ==
    /\ pc = "once"
    /\ ret' = Append(ret, normalize_currency_token(ret[1]))
    /\ pc' = "twice"
    /\ UNCHANGED <<lines, pos, current, blocks, bi, transactions, arg>>

NextCurrency == Normalize \/ NormalizeAgain

SpecCurrency == InitCurrency /\ [][NextCurrency]_vars

\* C4: normalizing what normalize_currency_token returned gives it back, for
\* every token: None, the empty string, blanks, tokens starting with K or k,
\* and other tokens.
CurrencyIdempotent == pc = "twice" => ret[2] = ret[1]

(***************************************************************************)
(* SpecFxLine: parse_fx_line applied to a line and a record                *)
(***************************************************************************)

\* the lines of at most MaxPieces pieces, each an FX shape or plain text
MaxPieces == 2
FxAmountOnlyLine == S("50,00 EUR")
FxPieces == {FxRateLine, FxAmountLine, FxAmountOnlyLine, S("kurz"), PlainA}
FxLines == {Join(<<" ">>, ps) : ps \in SeqsUpTo(FxPieces, MaxPieces)}

\* the records with all the columns null but some of the FX fields, set earlier
FxPresetKeys == {"FX_mena", "FX_castka", "FX_kurz"}
FxRecords ==
    {[k \in {COLUMNS[c] : c \in 1..Len(COLUMNS)} \cup set |->
         IF k \in set THEN S("old") ELSE None] : set \in SUBSET FxPresetKeys}

InitFxLine ==
    \E line \in FxLines, tx \in FxRecords :
        /\ Idle
        /\ arg = [line |-> line, tx |-> tx]
        /\ ret = <<>>
        /\ pc = "call"

\* ret = parse_fx_line(line, tx), with tx as the call leaves it
ParseFx ==
    /\ pc = "call"
    /\ ret' = parse_fx_line(arg.line, arg.tx)
    /\ pc' = "returned"
    /\ UNCHANGED <<lines, pos, current, blocks, bi, transactions, arg>>

NextFxLine == ParseFx

SpecFxLine == InitFxLine /\ [][NextFxLine]_vars

ShapeMatches(line, shape) ==
    CASE shape = "rate" -> Match(FX_RATE_RE, line).found
      [] shape = "date" -> Search(FX_DATE_AMOUNT_RE, line).found
      [] shape = "amount" -> Match(FX_AMOUNT_ONLY_RE, line).found

\* the fields a shape sets
ShapeKeys(shape) ==
    CASE shape = "rate" -> {"FX_kurz", "FX_kurz_mena"}
      [] shape = "date" -> {"FX_datum", "FX_castka", "FX_mena", "FX_info"}
      [] shape = "amount" -> {"FX_castka", "FX_mena"}
      [] shape = "none" -> {}

\* the first shape of order that the line matches
FirstShape(line, order) ==
    IF \E i \in 1..Len(order) : ShapeMatches(line, order[i])
    THEN order[CHOOSE i \in 1..Len(order) :
                   /\ ShapeMatches(line, order[i])
                   /\ \A j \in 1..(i - 1) : ~ShapeMatches(line, order[j])]
    ELSE "none"

\* the fields the call set or changed
ChangedKeys == {k \in DOMAIN ret.tx : Get(arg.tx, k) # ret.tx[k]}

\* with the shapes tried in this order the first that matches wins: only its
\* fields are set, each only if it was not set before; its fields (the FX
\* info aside) are set afterwards
FirstShapeWins(order) ==
    pc = "returned" =>
        /\ ChangedKeys \subseteq ShapeKeys(FirstShape(arg.line, order))
        /\ \A k \in ShapeKeys(FirstShape(arg.line, order)) \ {"FX_info"} : Truthy(Get(ret.tx, k))
        /\ \A k \in DOMAIN arg.tx : Truthy(arg.tx[k]) => ret.tx[k] = arg.tx[k]
        /\ ret.ok = (FirstShape(arg.line, order) # "none"
                     \/ Contains(StrLower(arg.line), S("kurz")))

\* C9: parse_fx_line tries the shapes in the order (1) unit exchange-rate
\* quotation, (2) date + amount + currency anywhere in the line, (3) amount +
\* currency at the start of the line, and the first that matches wins: only
\* its fields are set, each only if it is not already set.
FxShapeOrder == FirstShapeWins(<<"rate", "date", "amount">>)

\* a line of the rate shape and the date and amount shape has set the rate
\* fields and no other
FxShapeOrderWitness ==
    /\ pc = "returned"
    /\ ShapeMatches(arg.line, "rate")
    /\ ShapeMatches(arg.line, "date")
    /\ ChangedKeys = {"FX_kurz", "FX_kurz_mena"}

\* C9 as claimed: the order is date + amount, then amount, then rate.
FxShapeOrderAsWritten == FirstShapeWins(<<"date", "amount", "rate">>)

====
